---- MODULE Spec2Model ----
(***************************************************************************)
(* ALCoreferenceResolver.forward                                           *)
(* (src/discrete_al_coref_module/models/coref.py), one document per batch. *)
(*                                                                         *)
(* Tensors are functions over 0-based index ranges (0..n-1), so the empty  *)
(* tensor is <<>>.  Floats are integers plus the value NegInf (-inf).      *)
(* A span embedding is the identity of its candidate span; the learned     *)
(* scorers are functions chosen with the document.                         *)
(***************************************************************************)
EXTENDS Integers, Sequences, FiniteSets, TLC

\* ------------------------------------------------------------------ bounds
NumSpans == 3      \* candidate spans per document, spans.size(1)
LongBits == 8      \* modelled width of torch.long, which wraps at 2^64 in the build
MaxRename == 3     \* largest cluster id a relabelling may introduce

\* -inf, the value of (raw_antecedent_indices >= 0).float().log() on a slot
\* with no antecedent
NegInf == -1000

Nil == <<>>

Range(n) == 0 .. (n - 1)

Size(t) == Cardinality(DOMAIN t)

Max(a, b) == IF a >= b THEN a ELSE b

Min(a, b) == IF a <= b THEN a ELSE b

RECURSIVE Pow2(_)
Pow2(n) == IF n <= 0 THEN 1 ELSE 2 * Pow2(n - 1)

RECURSIVE Gcd(_, _)
Gcd(a, b) == IF b = 0 THEN a ELSE Gcd(b, a % b)

\* ------------------------------------------------------------- arithmetic
\* float addition with -inf absorbing
FAdd(a, b) == IF a = NegInf \/ b = NegInf THEN NegInf ELSE a + b

LongMin == 0 - Pow2(LongBits - 1)

\* two's-complement wrap of torch.long arithmetic
Wrap(x) == ((x - LongMin) % Pow2(LongBits)) + LongMin

\* Tensor.long() of a log-mask entry: 0.0 -> 0; -inf -> the smallest long
\* (what the float-to-int64 conversion yields for -inf on the x86-64, ARM64
\* and CUDA builds alike)
ToLong(x) == IF x = NegInf THEN LongMin ELSE x

\* ------------------------------------------------------------ tensor ops
\* F.relu(spans.float()).long()
Relu(t) == [i \in DOMAIN t |-> <<Max(0, t[i][1]), Max(0, t[i][2])>>]

\* (spans[:, :, 0] >= 0).squeeze(-1).float()
SpanMask(t) == [i \in DOMAIN t |-> IF t[i][1] >= 0 THEN 1 ELSE 0]

\* int(math.floor(self._spans_per_word * document_length)), spans_per_word
\* the ratio spw.num / spw.den
NumSpansToKeep(spw, document_length) == (spw.num * document_length) \div spw.den

\* util.batched_index_select(target, indices, flat_indices), batch size 1
BatchedIndexSelect(target, indices) ==
    [r \in DOMAIN indices |-> target[indices[r]]]

\* util.flatten_and_batch_shift_indices(indices, sequence_length): the batch
\* offset of the only batch element is 0
FlattenAndBatchShiftIndices(indices) == indices

\* util.flattened_index_select(target, indices): one entry of target per slot
FlattenedIndexSelect(target, indices) ==
    [i \in DOMAIN indices |-> [j \in DOMAIN indices[i] |-> target[indices[i][j]]]]

\* ------------------------------------------------------------- SpanPruner
\* self._mention_pruner(span_embeddings, span_mask, num_spans, True): one
\* scalar per candidate from the scorer, the invalid candidates masked to -inf
PrunerScores(mention_scorer, span_embeddings, span_mask) ==
    [i \in DOMAIN span_embeddings |->
        IF span_mask[i] = 1 THEN mention_scorer[span_embeddings[i]] ELSE NegInf]

\* candidate j is selected before candidate i: higher score, ties by
\* ascending original index
Beats(scores, j, i) ==
    scores[j] > scores[i] \/ (scores[j] = scores[i] /\ j < i)

Rank(scores, i) == Cardinality({j \in DOMAIN scores : Beats(scores, j, i)})

\* the K highest-scoring candidates, best first.  The caller takes exactly
\* num_spans_to_keep spans back (the window of lines 226-247 and the outputs
\* of lines 134-143 have that many rows): once the valid candidates run out,
\* masked ones are among the kept spans (comment of lines 160-166)
TopK(scores, K) ==
    [r \in Range(K) |-> CHOOSE i \in DOMAIN scores : Rank(scores, i) = r]

Image(t) == {t[r] : r \in DOMAIN t}

\* torch.sort of pairwise distinct indices
SortAscending(t) ==
    [r \in DOMAIN t |->
        CHOOSE v \in Image(t) : Cardinality({u \in Image(t) : u < v}) = r]

\* a pruner that returns the selection in score order
PrunerSelectUnsorted(scores, K) == TopK(scores, K)

\* self._mention_pruner(span_embeddings, span_mask, num_spans_to_keep, False,
\* span_mention_scores): the kept original indices, re-sorted ascending
PrunerSelect(scores, K) == SortAscending(TopK(scores, K))

\* ---------------------------------------------- AntecedentWindowGenerator
\* a generator whose offsets start at 0
GenerateValidAntecedentsFromZero(K, W) ==
    LET offsets == [j \in Range(W) |-> j]
        raw == [i \in Range(K) |-> [j \in Range(W) |-> i - offsets[j]]]
    IN  [indices |-> [i \in Range(K) |-> [j \in Range(W) |-> Max(0, raw[i][j])]],
         offsets |-> offsets,
         log_mask |-> [i \in Range(K) |-> [j \in Range(W) |->
                          IF raw[i][j] >= 0 THEN 0 ELSE NegInf]]]

\* a generator whose log-mask marks every slot valid
GenerateValidAntecedentsUnmasked(K, W) ==
    LET offsets == [j \in Range(W) |-> j + 1]
        raw == [i \in Range(K) |-> [j \in Range(W) |-> i - offsets[j]]]
    IN  [indices |-> [i \in Range(K) |-> [j \in Range(W) |-> Max(0, raw[i][j])]],
         offsets |-> offsets,
         log_mask |-> [i \in Range(K) |-> [j \in Range(W) |-> 0]]]

\* self._generate_valid_antecedents(num_spans_to_keep, max_antecedents, device):
\* offsets 1..W, raw index i - offset, log-mask log(raw >= 0), index relu(raw)
GenerateValidAntecedents(K, W) ==
    LET offsets == [j \in Range(W) |-> j + 1]
        raw == [i \in Range(K) |-> [j \in Range(W) |-> i - offsets[j]]]
    IN  [indices |-> [i \in Range(K) |-> [j \in Range(W) |-> Max(0, raw[i][j])]],
         offsets |-> offsets,
         log_mask |-> [i \in Range(K) |-> [j \in Range(W) |->
                          IF raw[i][j] >= 0 THEN 0 ELSE NegInf]]]

\* ------------------------------------------- PairScorer, CoreferenceScorer
\* self._compute_span_pair_embeddings: the target span (expanded over the
\* window), the antecedent candidate and the offset of the slot
ComputeSpanPairEmbeddings(top_span_embeddings, candidate_antecedent_embeddings, offsets) ==
    [i \in DOMAIN candidate_antecedent_embeddings |->
        [j \in DOMAIN candidate_antecedent_embeddings[i] |->
            [target |-> top_span_embeddings[i],
             antecedent |-> candidate_antecedent_embeddings[i][j],
             offset |-> offsets[j]]]]

\* the learned antecedent scorer: one raw scalar per pair
AntecedentScorer(favoured, pair) == IF pair.antecedent \in favoured THEN 1 ELSE -1

\* self._compute_coreference_scores: slot 0 is the dummy score 0; slot j+1 is
\* pair score + mention score + antecedent mention score + log-mask
ComputeCoreferenceScores(favoured, span_pair_embeddings, top_span_mention_scores, candidate_antecedent_mention_scores, log_mask) ==
    [i \in DOMAIN span_pair_embeddings |->
        [s \in 0 .. Size(span_pair_embeddings[i]) |->
            IF s = 0 THEN 0
            ELSE FAdd(FAdd(FAdd(AntecedentScorer(favoured, span_pair_embeddings[i][s - 1]),
                                top_span_mention_scores[i]),
                           candidate_antecedent_mention_scores[i][s - 1]),
                      log_mask[i][s - 1])]]

\* Tensor.max over the slots of a row: the lowest index of the maximum
ArgMax(row) ==
    CHOOSE s \in DOMAIN row :
        \A t \in DOMAIN row : row[t] < row[s] \/ (row[t] = row[s] /\ s <= t)

\* _, predicted_antecedents = coreference_scores.max(2); predicted_antecedents -= 1
PredictedAntecedents(coreference_scores) ==
    [i \in DOMAIN coreference_scores |-> ArgMax(coreference_scores[i]) - 1]

\* ----------------------------------------------------------- LossComputer
\* gathered labels without the log-mask added
AntecedentLabelsNoMask(pruned_gold_labels, indices, log_mask) ==
    FlattenedIndexSelect(pruned_gold_labels, indices)

\* antecedent_labels = flattened_index_select(pruned_gold_labels, indices);
\* antecedent_labels += valid_antecedent_log_mask.long()
AntecedentLabels(pruned_gold_labels, indices, log_mask) ==
    [i \in DOMAIN indices |-> [j \in DOMAIN indices[i] |->
        Wrap(pruned_gold_labels[indices[i][j]] + ToLong(log_mask[i][j]))]]

\* an indicator whose dummy slot is computed from the same-cluster test alone
ComputeAntecedentGoldLabelsDummyFromSame(top_span_labels, antecedent_labels) ==
    [i \in DOMAIN antecedent_labels |->
        LET target == top_span_labels[i]
            same(j) == target = antecedent_labels[i][j]
            pairwise(j) == IF same(j) /\ target >= 0 THEN 1 ELSE 0
        IN  [s \in 0 .. Size(antecedent_labels[i]) |->
                IF s = 0
                THEN IF \A j \in DOMAIN antecedent_labels[i] : ~same(j) THEN 1 ELSE 0
                ELSE pairwise(s - 1)]]

\* an indicator that takes cluster id 0 for the 'none' sentinel too
ComputeAntecedentGoldLabelsZeroIsNone(top_span_labels, antecedent_labels) ==
    [i \in DOMAIN antecedent_labels |->
        LET target == top_span_labels[i]
            pairwise(j) ==
                IF target = antecedent_labels[i][j] /\ target > 0 THEN 1 ELSE 0
        IN  [s \in 0 .. Size(antecedent_labels[i]) |->
                IF s = 0
                THEN IF \A j \in DOMAIN antecedent_labels[i] : pairwise(j) = 0 THEN 1 ELSE 0
                ELSE pairwise(s - 1)]]

\* self._compute_antecedent_gold_labels(pruned_gold_labels, antecedent_labels):
\* pairwise = (target == antecedent) * (target >= 0); dummy = prod(1 - pairwise)
ComputeAntecedentGoldLabels(top_span_labels, antecedent_labels) ==
    [i \in DOMAIN antecedent_labels |->
        LET target == top_span_labels[i]
            pairwise(j) ==
                IF target = antecedent_labels[i][j] /\ target >= 0 THEN 1 ELSE 0
        IN  [s \in 0 .. Size(antecedent_labels[i]) |->
                IF s = 0
                THEN IF \A j \in DOMAIN antecedent_labels[i] : pairwise(j) = 0 THEN 1 ELSE 0
                ELSE pairwise(s - 1)]]

\* exp(score) up to a common factor, on base 2: the finite scores are >= -1,
\* and exp(-inf) = 0
Weight(s) == IF s = NegInf THEN 0 ELSE IF s < 0 THEN 1 ELSE 2 * Pow2(s)

RECURSIVE RowMass(_, _, _)
\* the summed weight of the slots 0..n of a row that gold marks
RowMass(row, gold, n) ==
    IF n < 0 THEN 0
    ELSE (IF gold[n] = 1 THEN Weight(row[n]) ELSE 0) + RowMass(row, gold, n - 1)

Reduce(f) ==
    LET g == Gcd(f[1], f[2]) IN IF g = 0 THEN f ELSE <<f[1] \div g, f[2] \div g>>

RECURSIVE LikelihoodTo(_, _, _)
\* the product over the rows 0..n of (mass of the gold slots / mass of all
\* slots), as a reduced fraction
LikelihoodTo(coreference_scores, gold, n) ==
    IF n < 0 THEN <<1, 1>>
    ELSE LET rest == LikelihoodTo(coreference_scores, gold, n - 1)
             row == coreference_scores[n]
             all == [s \in DOMAIN row |-> 1]
         IN  Reduce(<<rest[1] * RowMass(row, gold[n], Size(row) - 1),
                      rest[2] * RowMass(row, all, Size(row) - 1)>>)

\* negative_marginal_log_likelihood =
\*   -logsumexp(masked_log_softmax(coreference_scores, top_span_mask)
\*              + gold_antecedent_labels.log()).sum()
\* held as the fraction <<n, d>> with loss = -log(n / d): the loss is 0 iff
\* n = d.  masked_log_softmax adds log(mask + 1e-45) of the span to every slot
\* of its row, and log_softmax cancels a shift of the whole row.
NegativeMarginalLogLikelihood(coreference_scores, top_span_mask, gold) ==
    LikelihoodTo(coreference_scores, gold, Size(coreference_scores) - 1)

ZeroLoss == <<1, 1>>

\* ------------------------------------------------------------------ state
VARIABLES
    config,   \* the constructor's parameters: spans_per_word, max_antecedents
    doc,      \* the document at hand and the learned scorers applied to it
    args,     \* the arguments of the forward call in progress
    loc,      \* the local variables of the forward call in progress
    pc,       \* the position of the forward call in progress
    heap,     \* the output dictionaries allocated so far, by reference
    heap0,    \* heap as it was when the call in progress was entered
    ret       \* what the last call returned or raised

vars == <<config, doc, args, loc, pc, heap, heap0, ret>>

\* -------------------------------------------------------------- documents
SpansPerWordChoices == {[num |-> 1, den |-> 1], [num |-> 1, den |-> 2]}

MaxAntecedentsChoices == {1, 2, NumSpans}

ClusterIds == {-1, 0, 1}

MentionScorers == [Range(NumSpans) -> {0, 1}]

OneCluster(nValid) == [i \in Range(NumSpans) |-> IF i < nValid THEN 0 ELSE -1]

\* gold cluster ids, -1 on the padding spans
Labelings(nValid) ==
    {l \in [Range(NumSpans) -> ClusterIds] : \A i \in Range(NumSpans) : i >= nValid => l[i] = -1}

Flat == [i \in Range(NumSpans) |-> 0]

Doc(nValid, document_length, mention_scorer, favoured, labels) ==
    [nValid |-> nValid, document_length |-> document_length,
     mention_scorer |-> mention_scorer, favoured |-> favoured, labels |-> labels]

\* documents that vary the validity of the candidates, the length and the
\* mention scores.  Every token is a candidate span and spans_per_word is a
\* multiplier between zero and one (line 57), so that
\* num_spans_to_keep <= document_length <= num_spans
PruningDocs ==
    {Doc(nv, dl, m, f, OneCluster(nv)) :
        nv \in 0 .. NumSpans, dl \in 1 .. NumSpans, m \in MentionScorers,
        f \in {{}, Range(NumSpans)}}

\* documents that vary the mention and the pairwise scores
ScoringDocs ==
    {Doc(NumSpans, NumSpans, m, f, OneCluster(NumSpans)) :
        m \in MentionScorers, f \in SUBSET Range(NumSpans)}

\* documents that vary the gold clusters
GoldDocs ==
    {Doc(NumSpans, NumSpans, Flat, f, l) :
        f \in {{}, Range(NumSpans)}, l \in Labelings(NumSpans)}

\* documents on which the staged entry points and every flag are exercised
StagedDocs ==
    {Doc(nv, NumSpans, Flat, Range(NumSpans), OneCluster(nv)) : nv \in 0 .. NumSpans}

Docs == PruningDocs \cup ScoringDocs \cup GoldDocs \cup StagedDocs

\* the spans tensor of a document: (i, i) for a candidate, (-1, -1) padding
SpansOf(d) ==
    [i \in Range(NumSpans) |-> IF i < d.nValid THEN <<i, i>> ELSE <<-1, -1>>]

\* ------------------------------------------------------------ dictionaries
NoInfo == [keys |-> {}]

NoRet == [kind |-> "none"]

OutputDict(top_spans, antecedent_indices, predicted_antecedents) ==
    [keys |-> {"top_spans", "antecedent_indices", "predicted_antecedents"},
     top_spans |-> top_spans,
     antecedent_indices |-> antecedent_indices,
     predicted_antecedents |-> predicted_antecedents,
     coreference_scores |-> Nil,
     top_span_indices |-> Nil,
     loss |-> Nil,
     document |-> Nil]

NoLocals ==
    [spans |-> Nil, span_mask |-> Nil, span_embeddings |-> Nil,
     span_mention_scores |-> Nil, num_spans_to_keep |-> 0,
     top_span_embeddings |-> Nil, top_span_mask |-> Nil,
     top_span_indices |-> Nil, flat_top_span_indices |-> Nil,
     top_span_mention_scores |-> Nil, top_spans |-> Nil, max_antecedents |-> 0,
     valid_antecedent_indices |-> Nil, valid_antecedent_offsets |-> Nil,
     valid_antecedent_log_mask |-> Nil, coreference_scores |-> Nil,
     predicted_antecedents |-> Nil, output_dict |-> 0,
     pruned_gold_labels |-> Nil, antecedent_labels |-> Nil,
     gold_antecedent_labels |-> Nil, loss |-> Nil]

\* ------------------------------------------------------------------ calls
Flags ==
    [get_scores : BOOLEAN, return_mention_scores : BOOLEAN,
     return_coref_scores : BOOLEAN, with_labels : BOOLEAN, with_metadata : BOOLEAN]

PlainFlags ==
    {f \in Flags : ~f.get_scores /\ ~f.return_mention_scores /\ ~f.return_coref_scores}

NoFlags ==
    [get_scores |-> FALSE, return_mention_scores |-> FALSE,
     return_coref_scores |-> FALSE, with_labels |-> FALSE, with_metadata |-> FALSE]

FlagChoices(d) == IF d \in StagedDocs THEN Flags ELSE PlainFlags

Arguments(d, f, top_spans_info, coref_scores_info) ==
    [spans |-> SpansOf(d),
     span_labels |-> IF f.with_labels THEN d.labels ELSE Nil,
     metadata |-> f.with_metadata,
     get_scores |-> f.get_scores,
     top_spans_info |-> top_spans_info,
     coref_scores_info |-> coref_scores_info,
     return_mention_scores |-> f.return_mention_scores,
     return_coref_scores |-> f.return_coref_scores]

\* the branch taken by 'if not coref_scores_info: if not top_spans_info:'
Entry(a) ==
    IF a.coref_scores_info.keys # {} THEN "coref_scores_info"
    ELSE IF a.top_spans_info.keys # {} THEN "top_spans_info"
    ELSE "fresh"

Init ==
    /\ config \in [spans_per_word : SpansPerWordChoices,
                   max_antecedents : MaxAntecedentsChoices]
    /\ doc \in Docs
    /\ args = Arguments(doc, NoFlags, NoInfo, NoInfo)
    /\ loc = NoLocals
    /\ pc = "idle"
    /\ heap = <<>>
    /\ heap0 = <<>>
    /\ ret = NoRet

Enter(a, start) ==
    /\ args' = a
    /\ loc' = NoLocals
    /\ pc' = start
    /\ heap0' = heap
    /\ ret' = NoRet
    /\ UNCHANGED <<config, doc, heap>>

\* forward(text, spans, span_labels, metadata, flags)
CallFresh ==
    /\ pc = "idle"
    /\ \E f \in FlagChoices(doc) : Enter(Arguments(doc, f, NoInfo, NoInfo), "embed")

\* the caller of a scores-only call prunes the returned mention scores with
\* the Pruner and calls forward(..., top_spans_info = that state)
TopSpansInfo(r) ==
    LET span_indices == PrunerSelect(r.mention_scores, r.num_spans_to_keep)
    IN  [keys |-> {"mention_scores", "top_scores", "span_indices", "flat_top_indices",
                   "top_mask", "span_embeddings", "text_mask"},
         mention_scores |-> r.mention_scores,
         top_scores |-> BatchedIndexSelect(r.mention_scores, span_indices),
         span_indices |-> span_indices,
         flat_top_indices |-> FlattenAndBatchShiftIndices(span_indices),
         top_mask |-> BatchedIndexSelect(r.mask, span_indices),
         span_embeddings |-> r.embeds]

CallFromPruning ==
    /\ pc = "done"
    /\ ret.kind = "mention_scores"
    /\ \E f \in FlagChoices(doc) :
           Enter(Arguments(doc, f, TopSpansInfo(ret), NoInfo), "load_top")

\* the state of a call that left at the scoring stage, handed back as
\* coref_scores_info: as returned, or with the log-mask stored under the key
\* the next call reads
CorefScoresInfo(r, mask_key) ==
    [keys |-> {"output_dict", "top_span_inds", "top_span_mask", mask_key},
     output_dict |-> r.output_dict,
     top_span_inds |-> r.top_span_inds,
     top_span_mask |-> r.top_span_mask,
     log_mask |-> r.ant_mask]

CallFromScoring ==
    /\ pc = "done"
    /\ ret.kind = "ret_values"
    /\ \E f \in FlagChoices(doc), k \in {"ant_mask", "valid_antecedent_log_mask"} :
           Enter(Arguments(doc, f, NoInfo, CorefScoresInfo(ret, k)), "load_scores")

\* ------------------------------------------------------------------ steps
Raise(error) ==
    /\ pc' = "done"
    /\ ret' = [kind |-> "raise", error |-> error]

\* lines 150-190: mask and clamp the spans, count the spans to keep, score
\* the mentions; return_mention_scores leaves here
Embed ==
    /\ pc = "embed"
    /\ LET span_mask == SpanMask(args.spans)
           spans == Relu(args.spans)
           span_embeddings == [i \in DOMAIN spans |-> i]
           num_spans_to_keep == NumSpansToKeep(config.spans_per_word, doc.document_length)
           span_mention_scores ==
               PrunerScores(doc.mention_scorer, span_embeddings, span_mask)
       IN  /\ loc' = [loc EXCEPT !.spans = spans, !.span_mask = span_mask,
                                 !.span_embeddings = span_embeddings,
                                 !.num_spans_to_keep = num_spans_to_keep,
                                 !.span_mention_scores = span_mention_scores]
           /\ IF args.return_mention_scores
              THEN /\ pc' = "done"
                   /\ ret' = [kind |-> "mention_scores",
                              num_spans_to_keep |-> num_spans_to_keep,
                              mention_scores |-> span_mention_scores,
                              mask |-> span_mask,
                              embeds |-> span_embeddings]
              ELSE /\ pc' = "prune"
                   /\ UNCHANGED ret
    /\ UNCHANGED <<config, doc, args, heap, heap0>>

\* lines 192-206: the Pruner selects the spans to keep
Prune ==
    /\ pc = "prune"
    /\ LET top_span_indices ==
               PrunerSelect(loc.span_mention_scores, loc.num_spans_to_keep)
       IN  loc' = [loc EXCEPT
               !.top_span_indices = top_span_indices,
               !.top_span_embeddings = BatchedIndexSelect(loc.span_embeddings, top_span_indices),
               !.top_span_mask = BatchedIndexSelect(loc.span_mask, top_span_indices),
               !.top_span_mention_scores =
                   BatchedIndexSelect(loc.span_mention_scores, top_span_indices),
               !.flat_top_span_indices = FlattenAndBatchShiftIndices(top_span_indices)]
    /\ pc' = "window"
    /\ UNCHANGED <<config, doc, args, heap, heap0, ret>>

\* lines 208-217: the pruning comes from top_spans_info
LoadTopSpans ==
    /\ pc = "load_top"
    /\ LET info == args.top_spans_info
       IN  loc' = [loc EXCEPT
               !.spans = args.spans,
               !.span_mention_scores = info.mention_scores,
               !.top_span_mention_scores = info.top_scores,
               !.num_spans_to_keep = Size(info.top_scores),
               !.top_span_indices = info.span_indices,
               !.flat_top_span_indices = info.flat_top_indices,
               !.top_span_mask = info.top_mask,
               !.span_embeddings = info.span_embeddings,
               !.top_span_embeddings =
                   BatchedIndexSelect(info.span_embeddings, info.span_indices)]
    /\ pc' = "window"
    /\ UNCHANGED <<config, doc, args, heap, heap0, ret>>

\* lines 219-247: the kept spans and the antecedent window
Window ==
    /\ pc = "window"
    /\ LET max_antecedents == Min(config.max_antecedents, loc.num_spans_to_keep)
           generated == GenerateValidAntecedents(loc.num_spans_to_keep, max_antecedents)
       IN  loc' = [loc EXCEPT
               !.top_spans = BatchedIndexSelect(loc.spans, loc.top_span_indices),
               !.max_antecedents = max_antecedents,
               !.valid_antecedent_indices = generated.indices,
               !.valid_antecedent_offsets = generated.offsets,
               !.valid_antecedent_log_mask = generated.log_mask]
    /\ pc' = "score"
    /\ UNCHANGED <<config, doc, args, heap, heap0, ret>>

\* lines 248-265: gather the antecedent candidates and score the pairs
Score ==
    /\ pc = "score"
    /\ LET candidate_antecedent_embeddings ==
               FlattenedIndexSelect(loc.top_span_embeddings, loc.valid_antecedent_indices)
           candidate_antecedent_mention_scores ==
               FlattenedIndexSelect(loc.top_span_mention_scores, loc.valid_antecedent_indices)
           span_pair_embeddings ==
               ComputeSpanPairEmbeddings(loc.top_span_embeddings,
                                         candidate_antecedent_embeddings,
                                         loc.valid_antecedent_offsets)
       IN  loc' = [loc EXCEPT !.coreference_scores =
                       ComputeCoreferenceScores(doc.favoured, span_pair_embeddings,
                                                loc.top_span_mention_scores,
                                                candidate_antecedent_mention_scores,
                                                loc.valid_antecedent_log_mask)]
    /\ pc' = "decode"
    /\ UNCHANGED <<config, doc, args, heap, heap0, ret>>

\* lines 267-285: decode the antecedents into a new output dictionary;
\* return_coref_scores leaves here
Decode ==
    /\ pc = "decode"
    /\ LET predicted_antecedents == PredictedAntecedents(loc.coreference_scores)
           fresh == OutputDict(loc.top_spans, loc.valid_antecedent_indices,
                               predicted_antecedents)
           output_dict ==
               IF args.get_scores \/ args.return_coref_scores
               THEN [fresh EXCEPT !.keys = @ \cup {"coreference_scores"},
                                  !.coreference_scores = loc.coreference_scores]
               ELSE fresh
       IN  /\ heap' = Append(heap, output_dict)
           /\ loc' = [loc EXCEPT !.predicted_antecedents = predicted_antecedents,
                                 !.output_dict = Len(heap) + 1]
           /\ IF args.return_coref_scores
              THEN /\ pc' = "done"
                   /\ ret' = [kind |-> "ret_values",
                              output_dict |-> Len(heap) + 1,
                              top_span_inds |-> <<loc.top_span_indices,
                                                  loc.flat_top_span_indices>>,
                              top_span_mask |-> loc.top_span_mask,
                              ant_mask |-> loc.valid_antecedent_log_mask]
              ELSE /\ pc' = "labels"
                   /\ UNCHANGED ret
    /\ UNCHANGED <<config, doc, args, heap0>>

\* lines 286-301: the scores come from coref_scores_info; the antecedents are
\* decoded into its output dictionary
LoadScores ==
    /\ pc = "load_scores"
    /\ LET info == args.coref_scores_info
           output_dict == heap[info.output_dict]
           predicted_antecedents == PredictedAntecedents(output_dict.coreference_scores)
       IN  IF "valid_antecedent_log_mask" \notin info.keys
           THEN Raise("KeyError") /\ UNCHANGED <<loc, heap>>
           ELSE /\ loc' = [loc EXCEPT
                        !.top_span_indices = info.top_span_inds[1],
                        !.flat_top_span_indices = info.top_span_inds[2],
                        !.top_span_mask = info.top_span_mask,
                        !.valid_antecedent_log_mask = info.log_mask,
                        !.output_dict = info.output_dict,
                        !.top_spans = output_dict.top_spans,
                        !.valid_antecedent_indices = output_dict.antecedent_indices,
                        !.num_spans_to_keep = Size(output_dict.top_spans),
                        !.coreference_scores = output_dict.coreference_scores,
                        !.predicted_antecedents = predicted_antecedents]
                /\ heap' = [heap EXCEPT ![info.output_dict] =
                               [@ EXCEPT !.keys = @ \cup {"predicted_antecedents"},
                                         !.predicted_antecedents = predicted_antecedents]]
                /\ pc' = "labels"
                /\ UNCHANGED ret
    /\ UNCHANGED <<config, doc, args, heap0>>

\* a branch that computes the loss on the fresh entry alone
ComputesLossFreshOnly(a) == a.span_labels # Nil /\ Entry(a) = "fresh"

\* line 306: if span_labels is not None
ComputesLoss(a) == a.span_labels # Nil

\* lines 302-337: with get_scores the kept indices, with span_labels the gold
\* antecedent indicator and the loss, each written to the output dictionary.
\* The metrics of lines 334-335 iterate over metadata and raise TypeError on
\* None, before the loss is stored.
Labels ==
    /\ pc = "labels"
    /\ LET with_indices ==
               IF args.get_scores
               THEN [heap[loc.output_dict] EXCEPT !.keys = @ \cup {"top_span_indices"},
                                                  !.top_span_indices = loc.top_span_indices]
               ELSE heap[loc.output_dict]
           pruned_gold_labels == BatchedIndexSelect(args.span_labels, loc.top_span_indices)
           antecedent_labels ==
               AntecedentLabels(pruned_gold_labels, loc.valid_antecedent_indices,
                                loc.valid_antecedent_log_mask)
           gold_antecedent_labels ==
               ComputeAntecedentGoldLabels(pruned_gold_labels, antecedent_labels)
           loss == NegativeMarginalLogLikelihood(loc.coreference_scores, loc.top_span_mask,
                                                 gold_antecedent_labels)
       IN  IF ComputesLoss(args)
           THEN /\ loc' = [loc EXCEPT !.pruned_gold_labels = pruned_gold_labels,
                                      !.antecedent_labels = antecedent_labels,
                                      !.gold_antecedent_labels = gold_antecedent_labels,
                                      !.loss = loss]
                /\ IF args.metadata
                   THEN /\ heap' = [heap EXCEPT ![loc.output_dict] =
                                       [with_indices EXCEPT !.keys = @ \cup {"loss"},
                                                            !.loss = loss]]
                        /\ pc' = "finish"
                        /\ UNCHANGED ret
                   ELSE /\ heap' = [heap EXCEPT ![loc.output_dict] = with_indices]
                        /\ Raise("TypeError")
           ELSE /\ heap' = [heap EXCEPT ![loc.output_dict] = with_indices]
                /\ pc' = "finish"
                /\ UNCHANGED <<loc, ret>>
    /\ UNCHANGED <<config, doc, args, heap0>>

\* lines 339-341: with metadata the document, then return output_dict
Finish ==
    /\ pc = "finish"
    /\ heap' = IF args.metadata
               THEN [heap EXCEPT ![loc.output_dict] =
                        [@ EXCEPT !.keys = @ \cup {"document"},
                                  !.document = <<doc.document_length>>]]
               ELSE heap
    /\ pc' = "done"
    /\ ret' = [kind |-> "output_dict", output_dict |-> loc.output_dict]
    /\ UNCHANGED <<config, doc, args, loc, heap0>>

Next ==
    \/ CallFresh
    \/ CallFromPruning
    \/ CallFromScoring
    \/ Embed
    \/ Prune
    \/ LoadTopSpans
    \/ Window
    \/ Score
    \/ Decode
    \/ LoadScores
    \/ Labels
    \/ Finish

Spec == Init /\ [][Next]_vars

\* ------------------------------------------------------------ properties
NumValid == Cardinality({i \in DOMAIN args.spans : args.spans[i][1] >= 0})

\* the gold cluster id of the kept span at position r
KeptLabel(r) == args.span_labels[loc.top_span_indices[r]]

Masked(i, j) == loc.valid_antecedent_log_mask[i][j] = NegInf

\* C1: the predicted antecedent of every kept-span position i, the argmax over
\* the 1 + W slots minus 1 with W = min(max_antecedents, K), is -1 or a slot
\* of the window that the log-mask leaves valid and whose entry names a
\* position in 0..i-1; a slot masked with -inf is never predicted.
C1_PredictedAntecedentInWindow ==
    \A i \in DOMAIN loc.predicted_antecedents :
        LET p == loc.predicted_antecedents[i]
        IN  /\ Size(loc.coreference_scores[i]) =
                   1 + Min(config.max_antecedents, loc.num_spans_to_keep)
            /\ \/ p = -1
               \/ /\ p \in DOMAIN loc.valid_antecedent_indices[i]
                  /\ ~Masked(i, p)
                  /\ loc.valid_antecedent_indices[i][p] \in 0 .. (i - 1)

\* a span with a masked slot in its row is given an antecedent
C1_Witness ==
    \E i \in DOMAIN loc.predicted_antecedents :
        /\ loc.predicted_antecedents[i] >= 0
        /\ \E j \in DOMAIN loc.valid_antecedent_indices[i] : Masked(i, j)

WindowGenerated == pc = "score"

\* C2 as stated: in the K x W index matrix every entry of row i is < i, the
\* entries of a row are pairwise distinct, and an entry whose candidate index
\* i - offset is < 0 is masked.
C2_EveryEntryBelowRow ==
    WindowGenerated =>
        \A i \in DOMAIN loc.valid_antecedent_indices :
            LET row == loc.valid_antecedent_indices[i]
            IN  /\ \A j \in DOMAIN row : row[j] < i
                /\ \A j, k \in DOMAIN row : j # k => row[j] # row[k]
                /\ \A j \in DOMAIN row :
                       i - loc.valid_antecedent_offsets[j] < 0 => Masked(i, j)

\* C2, amended: the window is a K x W matrix with W <= K; a slot is masked
\* exactly when its candidate index i - offset is < 0, and then holds the
\* placeholder index 0; the entries of the unmasked slots of row i are the
\* candidate indices, all in 0..i-1 and pairwise distinct.
C2_ValidEntriesBelowRow ==
    WindowGenerated =>
        /\ loc.max_antecedents <= loc.num_spans_to_keep
        /\ DOMAIN loc.valid_antecedent_indices = Range(loc.num_spans_to_keep)
        /\ \A i \in DOMAIN loc.valid_antecedent_indices :
               LET row == loc.valid_antecedent_indices[i]
               IN  /\ DOMAIN row = Range(loc.max_antecedents)
                   /\ \A j \in DOMAIN row :
                          /\ Masked(i, j) <=> i - loc.valid_antecedent_offsets[j] < 0
                          /\ Masked(i, j) => row[j] = 0
                          /\ ~Masked(i, j) =>
                                 /\ row[j] = i - loc.valid_antecedent_offsets[j]
                                 /\ row[j] \in 0 .. (i - 1)
                   /\ \A j, k \in DOMAIN row :
                          j # k /\ ~Masked(i, j) /\ ~Masked(i, k) => row[j] # row[k]

\* a window with a row that holds two valid slots and a row with a masked one
C2_Witness ==
    /\ WindowGenerated
    /\ \E i \in DOMAIN loc.valid_antecedent_indices :
           \E j, k \in DOMAIN loc.valid_antecedent_indices[i] :
               j # k /\ ~Masked(i, j) /\ ~Masked(i, k)
    /\ \E i \in DOMAIN loc.valid_antecedent_indices :
           \E j \in DOMAIN loc.valid_antecedent_indices[i] : Masked(i, j)

Pruned == pc = "window" /\ Entry(args) = "fresh"

\* C3: the original candidate indices of the kept spans come back from the
\* pruning in strictly increasing order.
C3_KeptIndicesIncreasing ==
    Pruned =>
        \A r, q \in DOMAIN loc.top_span_indices :
            r < q => loc.top_span_indices[r] < loc.top_span_indices[q]

\* a later candidate is kept with a higher score than an earlier kept one
C3_Witness ==
    /\ Pruned
    /\ \E r, q \in DOMAIN loc.top_span_indices :
           /\ r < q
           /\ loc.top_span_mention_scores[r] < loc.top_span_mention_scores[q]

\* C4: when the requested K = floor(spans_per_word * document_length) exceeds
\* the number of valid candidates, the pruning does not fail: it keeps fewer
\* than K spans, as many as there are valid candidates, none of them padding.
C4_PruningClampsToValid ==
    (Pruned /\ loc.num_spans_to_keep > NumValid) =>
        /\ ret.kind # "raise"
        /\ loc.num_spans_to_keep =
               NumSpansToKeep(config.spans_per_word, doc.document_length)
        /\ Size(loc.top_span_indices) = NumValid
        /\ Size(loc.top_span_indices) < loc.num_spans_to_keep
        /\ \A r \in DOMAIN loc.top_span_indices :
               args.spans[loc.top_span_indices[r]][1] >= 0

GoldRows == DOMAIN loc.gold_antecedent_labels \cap DOMAIN loc.top_span_indices

\* valid slot j of row i points to a kept span of i's gold cluster
SameCluster(i, j) ==
    /\ ~Masked(i, j)
    /\ KeptLabel(i) # -1
    /\ KeptLabel(loc.valid_antecedent_indices[i][j]) = KeptLabel(i)

\* C5: for every kept span, slot 0 of the gold-antecedent indicator is true
\* iff no slot j > 0 is; a span with no gold cluster has slot 0 true and the
\* other slots false; a span with two valid same-cluster antecedents in its
\* window has slot 0 false and both their slots true.
C5_DummySlotIffNoAntecedent ==
    \A i \in GoldRows :
        LET g == loc.gold_antecedent_labels[i]
        IN  /\ g[0] = 1 <=> \A s \in DOMAIN g \ {0} : g[s] = 0
            /\ KeptLabel(i) = -1 => g[0] = 1 /\ \A s \in DOMAIN g \ {0} : g[s] = 0
            /\ \A j, k \in DOMAIN loc.valid_antecedent_indices[i] :
                   j # k /\ SameCluster(i, j) /\ SameCluster(i, k) =>
                       g[0] = 0 /\ g[j + 1] = 1 /\ g[k + 1] = 1

\* a kept span has two valid antecedents of its gold cluster in its window
C5_Witness ==
    \E i \in GoldRows :
        \E j, k \in DOMAIN loc.valid_antecedent_indices[i] :
            j # k /\ SameCluster(i, j) /\ SameCluster(i, k)

\* the injective renamings of the cluster ids >= 0; -1 stays -1
Renamings ==
    {rho \in [ClusterIds \ {-1} -> 0 .. MaxRename] :
        \A a, b \in ClusterIds \ {-1} : a # b => rho[a] # rho[b]}

Rename(labels, rho) ==
    [i \in DOMAIN labels |-> IF labels[i] = -1 THEN -1 ELSE rho[labels[i]]]

LossComputed == loc.loss # Nil

\* C6: for the scores, kept spans and window of the call, every injective
\* renaming of the gold cluster ids >= 0 that keeps -1 yields the
\* gold-antecedent indicator and the loss that the call computed.
C6_LossInvariantUnderRelabelling ==
    LossComputed =>
        \A rho \in Renamings :
            LET pruned == BatchedIndexSelect(Rename(args.span_labels, rho),
                                             loc.top_span_indices)
                gold == ComputeAntecedentGoldLabels(pruned,
                            AntecedentLabels(pruned, loc.valid_antecedent_indices,
                                             loc.valid_antecedent_log_mask))
            IN  /\ gold = loc.gold_antecedent_labels
                /\ NegativeMarginalLogLikelihood(loc.coreference_scores,
                                                 loc.top_span_mask, gold) = loc.loss

\* the loss is computed for kept spans of two gold clusters, one of them
\* with a gold antecedent in its window
C6_Witness ==
    /\ LossComputed
    /\ \E r, q \in DOMAIN loc.top_span_indices :
           KeptLabel(r) >= 0 /\ KeptLabel(q) >= 0 /\ KeptLabel(r) # KeptLabel(q)
    /\ \E i \in GoldRows :
           \E s \in DOMAIN loc.gold_antecedent_labels[i] \ {0} :
               loc.gold_antecedent_labels[i][s] = 1

NoValidSpans == NumValid = 0

Unstaged == ~args.return_mention_scores /\ ~args.return_coref_scores

\* C7: for a document without a valid candidate span the fresh pipeline
\* returns, with K = 0 kept spans, an empty antecedent window and, when gold
\* labels are supplied, a loss of 0.
C7_NoValidSpansYieldEmptyResult ==
    (/\ pc = "done"
     /\ Entry(args) = "fresh"
     /\ Unstaged
     /\ NoValidSpans
     /\ (args.span_labels # Nil => args.metadata)) =>
        /\ ret.kind = "output_dict"
        /\ loc.num_spans_to_keep = 0
        /\ Size(loc.top_span_indices) = 0
        /\ loc.valid_antecedent_indices = Nil
        /\ (args.span_labels # Nil => heap[loc.output_dict].loss = ZeroLoss)

\* the result of the call carries the loss
LossCarried ==
    /\ ret.kind = "output_dict"
    /\ "loss" \in heap[ret.output_dict].keys
    /\ heap[ret.output_dict].loss = loc.loss
    /\ LossComputed

Resumed == pc = "done" /\ Entry(args) # "fresh"

\* C8 as stated: a call entering through top_spans_info or coref_scores_info
\* carries the loss in its result iff span_labels is supplied, whatever
\* get_scores, return_mention_scores and return_coref_scores are.
C8_LossIffLabels ==
    Resumed => (LossCarried <=> args.span_labels # Nil)

\* C8, amended: a call entering through top_spans_info or coref_scores_info
\* carries the loss in its result iff span_labels is supplied together with
\* metadata and the call neither leaves at the scoring stage (top_spans_info
\* with return_coref_scores) nor fails to find the log-mask under the key
\* 'valid_antecedent_log_mask' (coref_scores_info); get_scores and
\* return_mention_scores, and return_coref_scores on the coref_scores_info
\* entry, make no difference.
C8_LossIffLabelsAndStageReached ==
    Resumed =>
        (LossCarried <=>
            /\ args.span_labels # Nil
            /\ args.metadata
            /\ (Entry(args) = "top_spans_info" => ~args.return_coref_scores)
            /\ (Entry(args) = "coref_scores_info" =>
                    "valid_antecedent_log_mask" \in args.coref_scores_info.keys))

\* a call from precomputed scoring with every flag set returns the loss
C8_Witness ==
    /\ Resumed
    /\ Entry(args) = "coref_scores_info"
    /\ args.get_scores /\ args.return_mention_scores /\ args.return_coref_scores
    /\ LossCarried

\* C9: for every kept span i and window slot j > 0 the gold-antecedent
\* indicator is true iff the log-mask leaves the slot valid, the kept span the
\* slot points to has i's gold cluster id, and that id is not -1; a masked
\* slot is not marked even when its placeholder span shares i's cluster.
C9_IndicatorIffValidSameCluster ==
    \A i \in GoldRows :
        \A j \in DOMAIN loc.valid_antecedent_indices[i] :
            loc.gold_antecedent_labels[i][j + 1] = 1 <=>
                /\ ~Masked(i, j)
                /\ KeptLabel(loc.valid_antecedent_indices[i][j]) = KeptLabel(i)
                /\ KeptLabel(i) # -1

\* a masked slot whose placeholder is another kept span of i's gold cluster
C9_Witness ==
    \E i \in GoldRows \ {0} :
        \E j \in DOMAIN loc.valid_antecedent_indices[i] :
            /\ Masked(i, j)
            /\ KeptLabel(i) # -1
            /\ KeptLabel(loc.valid_antecedent_indices[i][j]) = KeptLabel(i)

\* C10: a forward call leaves what the caller supplied unchanged: the spans,
\* the span_labels, and the output dictionaries that existed when the call
\* was entered, the one nested in coref_scores_info among them.
C10_InputsUnchanged ==
    /\ args.spans = SpansOf(doc)
    /\ args.span_labels \in {Nil, doc.labels}
    /\ \A id \in DOMAIN heap0 : heap[id] = heap0[id]

\* what a single un-staged fresh call on the document computes (lines 150-279)
UnstagedResult ==
    LET spans == Relu(SpansOf(doc))
        span_embeddings == [i \in DOMAIN spans |-> i]
        scores == PrunerScores(doc.mention_scorer, span_embeddings, SpanMask(SpansOf(doc)))
        K == NumSpansToKeep(config.spans_per_word, doc.document_length)
        top_span_indices == PrunerSelect(scores, K)
        top_span_embeddings == BatchedIndexSelect(span_embeddings, top_span_indices)
        top_span_mention_scores == BatchedIndexSelect(scores, top_span_indices)
        generated == GenerateValidAntecedents(K, Min(config.max_antecedents, K))
        candidates == FlattenedIndexSelect(top_span_embeddings, generated.indices)
        coreference_scores ==
            ComputeCoreferenceScores(doc.favoured,
                ComputeSpanPairEmbeddings(top_span_embeddings, candidates, generated.offsets),
                top_span_mention_scores,
                FlattenedIndexSelect(top_span_mention_scores, generated.indices),
                generated.log_mask)
    IN  [top_spans |-> BatchedIndexSelect(spans, top_span_indices),
         antecedent_indices |-> generated.indices,
         predicted_antecedents |-> PredictedAntecedents(coreference_scores)]

\* the call was handed, as coref_scores_info, the state of a scoring-stage
\* exit exactly as returned (log-mask under 'ant_mask')
ResumedAsReturned ==
    /\ pc = "done"
    /\ Entry(args) = "coref_scores_info"
    /\ "ant_mask" \in args.coref_scores_info.keys

\* C11: the state returned by a call that leaves at the scoring stage, passed
\* unchanged as coref_scores_info to a second call, lets that call complete
\* without error and return the top_spans, antecedent_indices and
\* predicted_antecedents of a single un-staged call on the same inputs.
C11_StagedPipelineResumable ==
    ResumedAsReturned =>
        /\ ret.kind = "output_dict"
        /\ heap[ret.output_dict].top_spans = UnstagedResult.top_spans
        /\ heap[ret.output_dict].antecedent_indices = UnstagedResult.antecedent_indices
        /\ heap[ret.output_dict].predicted_antecedents = UnstagedResult.predicted_antecedents

====
